---- MODULE Spec2Model ----
(***************************************************************************)
(* Study Coach tools (src/app/agent.py): the topic catalog, the three      *)
(* tools get_module_outline / build_study_schedule / suggest_practice_tasks*)
(* and the run_study_coach helper with its global TOOL_LOG.                *)
(*                                                                         *)
(* Strings that the code inspects (module names, topic names, the comma    *)
(* separated weak/focus lists) are spelled out character by character in   *)
(* Chars, so that lower(), strip(), split(",") and the `in` substring test *)
(* are computed on the characters rather than assumed.                     *)
(*                                                                         *)
(* Hours are Python floats.  They are modelled as exact rationals <<n,d>>  *)
(* (d > 0, lowest terms).  Binary floating point differs from the exact    *)
(* value by a few units in the last place, which changes a result only     *)
(* where the exact value sits on a boundary: a round(x, 1) of a value      *)
(* exactly halfway between two tenths, and a `>=` between two exactly      *)
(* equal values.  At those points the model takes either outcome, except   *)
(* for the value hours_per_day / 2 of a half-hour input, which is an exact *)
(* float and is rounded half-to-even as Python does.                       *)
(***************************************************************************)
EXTENDS Integers, Sequences, FiniteSets, TLC

\* ------------------------------------------------------------------------
\* Bounds of the model
\* ------------------------------------------------------------------------
\* days_until_exam ranges over 1..MaxDays
MaxDays == 5
\* hours_per_day ranges over 0.5, 1.0, ... MaxHalfHours / 2
MaxHalfHours == 6
\* run_study_coach is started at most MaxRuns times in a behaviour
MaxRuns == 2
\* at most MaxToolCalls tool invocations in a behaviour of the coach
MaxToolCalls == 2

\* ------------------------------------------------------------------------
\* Exact rationals
\* ------------------------------------------------------------------------
RECURSIVE GCD(_, _)
GCD(a, b) == IF b = 0 THEN a ELSE GCD(b, a % b)

Abs(n) == IF n < 0 THEN -n ELSE n

Rat(n, d) ==
    LET g == GCD(Abs(n), d)
    IN  IF n = 0 THEN <<0, 1>> ELSE <<n \div g, d \div g>>

RInt(n) == <<n, 1>>
RAdd(x, y) == Rat(x[1] * y[2] + y[1] * x[2], x[2] * y[2])
RSub(x, y) == Rat(x[1] * y[2] - y[1] * x[2], x[2] * y[2])
RMul(x, y) == Rat(x[1] * y[1], x[2] * y[2])
RDiv(x, y) == Rat(x[1] * y[2], x[2] * y[1])
RLt(x, y) == x[1] * y[2] < y[1] * x[2]
RLe(x, y) == x[1] * y[2] <= y[1] * x[2]
RMin(x, y) == IF RLe(x, y) THEN x ELSE y
RZero == RInt(0)

RECURSIVE RSum(_)
RSum(s) == IF s = <<>> THEN RZero ELSE RAdd(Head(s), RSum(Tail(s)))

RECURSIVE ISum(_)
ISum(s) == IF s = <<>> THEN 0 ELSE Head(s) + ISum(Tail(s))

\* the characters of every string the tools inspect
Chars ==
    ("LLM fundamentals" :>
          <<"L","L","M"," ","f","u","n","d","a","m","e","n","t","a","l","s">>)
    @@ ("Prompt engineering" :>
          <<"P","r","o","m","p","t"," ","e","n","g","i","n","e","e","r","i","n","g">>)
    @@ ("OpenAI & Groq APIs" :>
          <<"O","p","e","n","A","I"," ","&"," ","G","r","o","q"," ","A","P","I","s">>)
    @@ ("LangChain basics" :>
          <<"L","a","n","g","C","h","a","i","n"," ","b","a","s","i","c","s">>)
    @@ ("Agents and Tools" :>
          <<"A","g","e","n","t","s"," ","a","n","d"," ","T","o","o","l","s">>)
    @@ ("RAG" :>
          <<"R","A","G">>)
    @@ ("Agent security & guardrails" :>
          <<"A","g","e","n","t"," ","s","e","c","u","r","i","t","y"," ","&"," ","g","u","a","r","d","r","a","i","l","s">>)
    @@ ("generative ai" :>
          <<"g","e","n","e","r","a","t","i","v","e"," ","a","i">>)
    @@ ("Generative AI" :>
          <<"G","e","n","e","r","a","t","i","v","e"," ","A","I">>)
    @@ (" GENERATIVE AI " :>
          <<" ","G","E","N","E","R","A","T","I","V","E"," ","A","I"," ">>)
    @@ ("nonexistent module" :>
          <<"n","o","n","e","x","i","s","t","e","n","t"," ","m","o","d","u","l","e">>)
    @@ ("" :>
          <<>>)
    @@ ("rag, Agent" :>
          <<"r","a","g",","," ","A","g","e","n","t">>)
    @@ (" , " :>
          <<" ",","," ">>)
    @@ ("Groq, xyz" :>
          <<"G","r","o","q",","," ","x","y","z">>)
    @@ ("a" :>
          <<"a">>)
    @@ ("Prompt,API, rag" :>
          <<"P","r","o","m","p","t",",","A","P","I",","," ","r","a","g">>)

\* ------------------------------------------------------------------------
\* str methods used by the tools
\* ------------------------------------------------------------------------
UpperCase ==
    <<"A","B","C","D","E","F","G","H","I","J","K","L","M","N","O","P","Q","R","S","T","U","V","W","X","Y","Z">>
LowerCase ==
    <<"a","b","c","d","e","f","g","h","i","j","k","l","m","n","o","p","q","r","s","t","u","v","w","x","y","z">>

LowerChar(c) ==
    IF \E i \in 1..Len(UpperCase) : UpperCase[i] = c
    THEN LowerCase[CHOOSE i \in 1..Len(UpperCase) : UpperCase[i] = c]
    ELSE c

\* s.lower()
Lower(s) == [i \in 1..Len(s) |-> LowerChar(s[i])]

\* s.strip()
RECURSIVE LStrip(_)
LStrip(s) == IF s # <<>> /\ Head(s) = " " THEN LStrip(Tail(s)) ELSE s

RECURSIVE RStrip(_)
RStrip(s) ==
    IF s # <<>> /\ s[Len(s)] = " " THEN RStrip(SubSeq(s, 1, Len(s) - 1)) ELSE s

Strip(s) == RStrip(LStrip(s))

\* s.split(","): the pieces between commas, empty pieces included
RECURSIVE SplitFrom(_, _)
SplitFrom(s, cur) ==
    IF s = <<>> THEN <<cur>>
    ELSE IF Head(s) = "," THEN <<cur>> \o SplitFrom(Tail(s), <<>>)
    ELSE SplitFrom(Tail(s), Append(cur, Head(s)))

Split(s) == SplitFrom(s, <<>>)

\* w in t
Contains(t, w) ==
    \E i \in 0..(Len(t) - Len(w)) : SubSeq(t, i + 1, i + Len(w)) = w

\* any(w in t.lower() for w in lst)
AnyIn(lst, t) == \E k \in 1..Len(lst) : Contains(Lower(Chars[t]), lst[k])

\* [x.strip().lower() for x in raw.split(",") if x.strip()]
RECURSIVE CleanPieces(_)
CleanPieces(ps) ==
    IF ps = <<>> THEN <<>>
    ELSE IF Strip(Head(ps)) # <<>>
         THEN <<Lower(Strip(Head(ps)))>> \o CleanPieces(Tail(ps))
         ELSE CleanPieces(Tail(ps))

ParseList(raw) == CleanPieces(Split(Chars[raw]))

\* ------------------------------------------------------------------------
\* Syllabus & practice-task data
\* ------------------------------------------------------------------------
T_LLM == "LLM fundamentals"
T_Prompt == "Prompt engineering"
T_APIs == "OpenAI & Groq APIs"
T_LangChain == "LangChain basics"
T_Agents == "Agents and Tools"
T_RAG == "RAG"
T_Security == "Agent security & guardrails"
M_generative_ai == "generative ai"
SYLLABUS ==
    M_generative_ai :>
        <<T_LLM, T_Prompt, T_APIs, T_LangChain, T_Agents, T_RAG, T_Security>>

PRACTICE_TASKS ==
    (T_LLM :> <<"Explain in your own words what an LLM is and how it is trained.",
                "Compare two LLM architectures and list their pros/cons.">>)
    @@ (T_Prompt :> <<"Write prompts in zero-shot, few-shot and chain-of-thought styles.",
                      "Rewrite a vague prompt into a precise, constrained one.">>)
    @@ (T_LangChain :> <<"Build a simple LangChain LLMChain using a PromptTemplate.",
                         "Create a LangChain chain that calls two steps in sequence.">>)
    @@ (T_Agents :> <<"Create a ReAct agent that uses at least two tools.",
                      "Implement a custom LangChain tool and expose it to an agent.">>)
    @@ (T_RAG :> <<"Implement a basic RAG pipeline using a single PDF.",
                   "Experiment with different chunk sizes and compare answer quality.">>)
    @@ (T_Security :> <<"Design a simple prompt-based safety policy for your agent.",
                        "Add checks to block obviously unsafe or irrelevant queries.">>)

\* dict.get(key) with a falsy default
DictGet(dict, key) == IF key \in DOMAIN dict THEN dict[key] ELSE <<>>

\* SYLLABUS.get(key) for a key computed character by character
SyllabusGet(key) ==
    IF \E m \in DOMAIN SYLLABUS : Chars[m] = key
    THEN SYLLABUS[CHOOSE m \in DOMAIN SYLLABUS : Chars[m] = key]
    ELSE <<>>

\* the lookup without lower(): a case-sensitive catalog
LookupTopics_CaseSensitive(module_name) == SyllabusGet(Strip(Chars[module_name]))

\* SYLLABUS.get(module_name.lower().strip())
LookupTopics(module_name) == SyllabusGet(Strip(Lower(Chars[module_name])))

\* ------------------------------------------------------------------------
\* Inputs of the tools
\* ------------------------------------------------------------------------
M_Generative_AI == "Generative AI"
M_padded == " GENERATIVE AI "
M_nonexistent == "nonexistent module"
ModuleNames == {M_generative_ai, M_Generative_AI, M_padded, M_nonexistent}

W_none == ""
W_RAG == "RAG"
W_rag_agent == "rag, Agent"
W_blank == " , "
W_groq_xyz == "Groq, xyz"
W_a == "a"
W_three == "Prompt,API, rag"
\* comma separated weak_topics / focus_topics arguments
ListArgs == {W_none, W_RAG, W_rag_agent, W_blank, W_groq_xyz, W_a, W_three}

\* hours_per_day: the half-hour grid 0.5 .. MaxHalfHours / 2
HourChoices == {Rat(h, 2) : h \in 1..MaxHalfHours}

OutlineRequests ==
    [tool : {"get_module_outline"}, module_name : ModuleNames,
     days_until_exam : {0}, hours_per_day : {RZero}, list_arg : {W_none}]

ScheduleRequests ==
    [tool : {"build_study_schedule"},
     module_name : {M_Generative_AI, M_nonexistent},
     days_until_exam : 1..MaxDays, hours_per_day : HourChoices,
     list_arg : ListArgs]

TaskRequests ==
    [tool : {"suggest_practice_tasks"}, module_name : ModuleNames,
     days_until_exam : {0}, hours_per_day : {RZero}, list_arg : ListArgs]

Requests == OutlineRequests \cup ScheduleRequests \cup TaskRequests

\* the keyword arguments a tool hands to log_tool
KwArgs(r) ==
    IF r.tool = "get_module_outline"
    THEN <<r.module_name>>
    ELSE IF r.tool = "build_study_schedule"
    THEN <<r.module_name, r.days_until_exam, r.hours_per_day, r.list_arg>>
    ELSE <<r.module_name, r.list_arg>>

\* the entry log_tool appends
LogEntry(r) == [tool |-> r.tool, input |-> KwArgs(r)]

\* ------------------------------------------------------------------------
\* State
\* ------------------------------------------------------------------------
VARIABLES
    TOOL_LOG,         \* the global tool log
    req,              \* arguments of the tool call being executed
    pc,               \* "idle", "packing" (inside the for/while loops), "done"
    topics,           \* build_study_schedule locals
    weights,
    hours_per_topic,
    schedule,
    day,
    ti,               \* position of the for loop in zip(topics, hours_per_topic)
    remaining,
    result,           \* what the tool returned
    runPc,            \* run_study_coach: position of each caller
    runCalls,         \* the tool calls the agent of each run has made
    runLog,           \* tool_log_text returned by each run
    runsStarted       \* number of run_study_coach calls so far

toolVars ==
    <<req, pc, topics, weights, hours_per_topic, schedule, day, ti, remaining, result>>
coachVars == <<runPc, runCalls, runLog, runsStarted>>
vars == <<TOOL_LOG, toolVars, coachVars>>

NoResult == [kind |-> "None"]

\* ------------------------------------------------------------------------
\* build_study_schedule
\* ------------------------------------------------------------------------
\* the weight test without t.lower()
TopicWeight_CaseSensitive(t, weak_list) ==
    IF \E k \in 1..Len(weak_list) : Contains(Chars[t], weak_list[k]) THEN 2 ELSE 1

\* 2 if any(w in t.lower() for w in weak_list) else 1
TopicWeight(t, weak_list) == IF AnyIn(weak_list, t) THEN 2 ELSE 1

ComputeWeights(tps, weak_list) ==
    [i \in 1..Len(tps) |-> TopicWeight(tps[i], weak_list)]

\* the budget counted over one day too many
TotalHours_ExtraDay(days_until_exam, hours_per_day) ==
    RMul(RInt(days_until_exam + 1), hours_per_day)

\* total_hours = days_until_exam * hours_per_day
TotalHours(days_until_exam, hours_per_day) ==
    RMul(RInt(days_until_exam), hours_per_day)

\* (w / total_weight) * total_hours
TopicHours(w, total_weight, total_hours) ==
    RMul(RDiv(RInt(w), RInt(total_weight)), total_hours)

ComputeHours(ws, total_hours) ==
    [i \in 1..Len(ws) |-> TopicHours(ws[i], ISum(ws), total_hours)]

\* the chunk without the half-day cap
ChunkSize_NoCap(rem, hours_per_day) == rem

\* chunk = min(remaining, hours_per_day / 2)
ChunkSize(rem, hours_per_day) == RMin(rem, RDiv(hours_per_day, RInt(2)))

\* round(x, 1): the nearest tenth; a value exactly halfway goes to the even
\* tenth when the float is the exact value, and to either neighbour when the
\* float only approximates it
Round1(x, isExact) ==
    LET n10 == 10 * x[1]
        fl  == n10 \div x[2]
        r2  == 2 * (n10 % x[2])
    IN  IF r2 < x[2] THEN {Rat(fl, 10)}
        ELSE IF r2 > x[2] THEN {Rat(fl + 1, 10)}
        ELSE IF isExact THEN {Rat(IF fl % 2 = 0 THEN fl ELSE fl + 1, 10)}
        ELSE {Rat(fl, 10), Rat(fl + 1, 10)}

\* day_load = sum(h for _, h in schedule[day])
DayLoad(items) == RSum([i \in 1..Len(items) |-> items[i][2]])

\* day_load >= hours_per_day * 0.9, on floats: decided by the exact values
\* unless they are equal
DayFull(day_load, hours_per_day) ==
    LET limit == RMul(hours_per_day, Rat(9, 10))
    IN  IF RLt(limit, day_load) THEN {TRUE}
        ELSE IF RLt(day_load, limit) THEN {FALSE}
        ELSE {TRUE, FALSE}

\* while remaining > 0 and day <= days_until_exam
LoopGuard(rem, d, days_until_exam) == RLt(RZero, rem) /\ d <= days_until_exam

\* the day loop stopping one day early
RECURSIVE DayLines_SkipLast(_, _, _)
DayLines_SkipLast(sched, d, last) ==
    IF d >= last THEN <<>>
    ELSE (IF sched[d] = <<>> THEN <<>>
          ELSE <<<<"day", d>>>>
               \o [i \in 1..Len(sched[d]) |->
                      <<"item", sched[d][i][1], sched[d][i][2]>>]
               \o <<<<"blank">>>>)
         \o DayLines_SkipLast(sched, d + 1, last)

\* lines 142-154: the header and, for each day that has items, a "Day d:"
\* line, one line per item and an empty line
RECURSIVE DayLines(_, _, _)
DayLines(sched, d, last) ==
    IF d > last THEN <<>>
    ELSE (IF sched[d] = <<>> THEN <<>>
          ELSE <<<<"day", d>>>>
               \o [i \in 1..Len(sched[d]) |->
                      <<"item", sched[d][i][1], sched[d][i][2]>>]
               \o <<<<"blank">>>>)
         \o DayLines(sched, d + 1, last)

ScheduleLines(r, sched) ==
    << <<"title", r.module_name>>,
       <<"params", r.days_until_exam, r.hours_per_day>>,
       <<"weak", IF r.list_arg # "" THEN r.list_arg ELSE "None specified">>,
       <<"blank">> >>
    \o DayLines(sched, 1, r.days_until_exam)

\* "\n".join(lines) if len(lines) > 4 else "Could not build a useful schedule."
ScheduleResult(lines) ==
    IF Len(lines) > 4 THEN [kind |-> "Schedule", lines |-> lines]
    ELSE [kind |-> "Unbuildable"]

\* f"No module named '{module_name}' found."
NotFound(module_name) == [kind |-> "NotFound", module_name |-> module_name]

\* lines 105-128: log, look the module up, weights, allocation, empty schedule
BuildCall ==
    /\ pc = "idle"
    /\ req.tool = "build_study_schedule"
    /\ TOOL_LOG' = Append(TOOL_LOG, LogEntry(req))
    /\ LET found == LookupTopics(req.module_name)
       IN  IF found = <<>>
           THEN /\ result' = NotFound(req.module_name)
                /\ pc' = "done"
                /\ UNCHANGED <<topics, weights, hours_per_topic, schedule, day,
                               ti, remaining>>
           ELSE LET ws == ComputeWeights(found, ParseList(req.list_arg))
                    hs == ComputeHours(ws, TotalHours(req.days_until_exam,
                                                      req.hours_per_day))
                IN  /\ topics' = found
                    /\ weights' = ws
                    /\ hours_per_topic' = hs
                    /\ schedule' = [d \in 1..req.days_until_exam |-> <<>>]
                    /\ day' = 1
                    /\ ti' = 1
                    /\ remaining' = hs[1]
                    /\ pc' = "packing"
                    /\ UNCHANGED result
    /\ UNCHANGED <<req, coachVars>>

\* lines 132-140: one iteration of the while loop
PackChunk ==
    /\ pc = "packing"
    /\ LoopGuard(remaining, day, req.days_until_exam)
    /\ LET half   == RDiv(req.hours_per_day, RInt(2))
           chunk  == ChunkSize(remaining, req.hours_per_day)
       IN  \E hrs \in Round1(chunk, RLt(half, remaining)) :
             LET items == Append(schedule[day], <<topics[ti], hrs>>)
             IN  \E full \in DayFull(DayLoad(items), req.hours_per_day) :
                   /\ schedule' = [schedule EXCEPT ![day] = items]
                   /\ remaining' = RSub(remaining, chunk)
                   /\ day' = IF full THEN day + 1 ELSE day
    /\ UNCHANGED <<TOOL_LOG, req, pc, topics, weights, hours_per_topic, ti, result,
                   coachVars>>

\* line 130: the while loop is over, the for loop takes the next pair
NextTopic ==
    /\ pc = "packing"
    /\ ~LoopGuard(remaining, day, req.days_until_exam)
    /\ ti < Len(hours_per_topic)
    /\ ti' = ti + 1
    /\ remaining' = hours_per_topic[ti + 1]
    /\ UNCHANGED <<TOOL_LOG, req, pc, topics, weights, hours_per_topic, schedule, day,
                   result, coachVars>>

\* lines 142-156: the for loop is over, format and return
BuildReturn ==
    /\ pc = "packing"
    /\ ~LoopGuard(remaining, day, req.days_until_exam)
    /\ ti = Len(hours_per_topic)
    /\ result' = ScheduleResult(ScheduleLines(req, schedule))
    /\ pc' = "done"
    /\ UNCHANGED <<TOOL_LOG, req, topics, weights, hours_per_topic, schedule, day, ti,
                   remaining, coachVars>>

\* ------------------------------------------------------------------------
\* get_module_outline
\* ------------------------------------------------------------------------
OutlineResult(module_name) ==
    LET tps == LookupTopics(module_name)
    IN  IF tps = <<>> THEN NotFound(module_name)
        ELSE [kind |-> "Outline",
              lines |-> <<<<"title", module_name>>>>
                        \o [i \in 1..Len(tps) |-> <<"topic", tps[i]>>]]

GetOutline ==
    /\ pc = "idle"
    /\ req.tool = "get_module_outline"
    /\ TOOL_LOG' = Append(TOOL_LOG, LogEntry(req))
    /\ result' = OutlineResult(req.module_name)
    /\ pc' = "done"
    /\ UNCHANGED <<req, topics, weights, hours_per_topic, schedule, day, ti, remaining,
                   coachVars>>

\* ------------------------------------------------------------------------
\* suggest_practice_tasks
\* ------------------------------------------------------------------------
\* the loop body without the focus filter
TopicTaskLines_NoFilter(topic, focus_list) ==
    LET tasks == DictGet(PRACTICE_TASKS, topic)
    IN  IF tasks = <<>> THEN <<>>
        ELSE <<<<"topic", topic>>>>
             \o [i \in 1..Len(tasks) |-> <<"task", tasks[i]>>]
             \o <<<<"blank">>>>

\* the body of `for topic in topics`, lines 178-188
TopicTaskLines(topic, focus_list) ==
    IF focus_list # <<>> /\ ~AnyIn(focus_list, topic) THEN <<>>
    ELSE LET tasks == DictGet(PRACTICE_TASKS, topic)
         IN  IF tasks = <<>> THEN <<>>
             ELSE <<<<"topic", topic>>>>
                  \o [i \in 1..Len(tasks) |-> <<"task", tasks[i]>>]
                  \o <<<<"blank">>>>

RECURSIVE TaskLines(_, _)
TaskLines(tps, focus_list) ==
    IF tps = <<>> THEN <<>>
    ELSE TopicTaskLines(Head(tps), focus_list)
         \o TaskLines(Tail(tps), focus_list)

TasksResult(module_name, focus_topics) ==
    LET tps == LookupTopics(module_name)
    IN  IF tps = <<>> THEN NotFound(module_name)
        ELSE LET lines == <<<<"header">>>>
                          \o TaskLines(tps, ParseList(focus_topics))
             IN  IF Len(lines) = 1 THEN [kind |-> "NoMatches"]
                 ELSE [kind |-> "Tasks", lines |-> lines]

SuggestTasks ==
    /\ pc = "idle"
    /\ req.tool = "suggest_practice_tasks"
    /\ TOOL_LOG' = Append(TOOL_LOG, LogEntry(req))
    /\ result' = TasksResult(req.module_name, req.list_arg)
    /\ pc' = "done"
    /\ UNCHANGED <<req, topics, weights, hours_per_topic, schedule, day, ti, remaining,
                   coachVars>>

\* ------------------------------------------------------------------------
\* Specification of one tool call on any request
\* ------------------------------------------------------------------------
Runs == 1..MaxRuns

NoLog == [kind |-> "NotReturned"]

CoachIdle ==
    /\ runPc = [r \in Runs |-> "idle"]
    /\ runCalls = [r \in Runs |-> <<>>]
    /\ runLog = [r \in Runs |-> NoLog]
    /\ runsStarted = 0

Init ==
    /\ TOOL_LOG = <<>>
    /\ req \in Requests
    /\ pc = "idle"
    /\ topics = <<>>
    /\ weights = <<>>
    /\ hours_per_topic = <<>>
    /\ schedule = <<>>
    /\ day = 0
    /\ ti = 0
    /\ remaining = RZero
    /\ result = NoResult
    /\ CoachIdle

Next ==
    \/ GetOutline
    \/ BuildCall
    \/ PackChunk
    \/ NextTopic
    \/ BuildReturn
    \/ SuggestTasks

Spec == Init /\ [][Next]_vars

\* ------------------------------------------------------------------------
\* run_study_coach and its callers
\* ------------------------------------------------------------------------
\* the requests the agent's model chooses among
CoachRequests ==
    { r \in OutlineRequests : r.module_name \in {M_Generative_AI, M_nonexistent} }
    \cup { r \in TaskRequests :
             r.module_name = M_generative_ai /\ r.list_arg = W_RAG }

NoRequest ==
    [tool |-> "none", module_name |-> "", days_until_exam |-> 0,
     hours_per_day |-> RZero, list_arg |-> ""]

\* lines 253-259: the text built from TOOL_LOG
FormatLog(log) ==
    IF log # <<>>
    THEN [kind |-> "Sequence",
          lines |-> [i \in 1..Len(log) |-> <<i, log[i].tool, log[i].input>>]]
    ELSE [kind |-> "NoTools"]

\* line 246: TOOL_LOG.clear(), then agent.invoke starts
RunStart(r) ==
    /\ runPc[r] = "idle"
    /\ runsStarted = r - 1
    /\ TOOL_LOG' = <<>>
    /\ runPc' = [runPc EXCEPT ![r] = "invoking"]
    /\ runsStarted' = r
    /\ UNCHANGED <<toolVars, runCalls, runLog>>

\* inside agent.invoke the agent calls a tool, which calls log_tool
AgentToolCall(r, q) ==
    /\ runPc[r] = "invoking"
    /\ ISum([k \in Runs |-> Len(runCalls[k])]) < MaxToolCalls
    /\ TOOL_LOG' = Append(TOOL_LOG, LogEntry(q))
    /\ runCalls' = [runCalls EXCEPT ![r] = Append(@, q)]
    /\ UNCHANGED <<toolVars, runPc, runLog, runsStarted>>

\* lines 251-261: agent.invoke returned, the log text is built and returned
RunReturn(r) ==
    /\ runPc[r] = "invoking"
    /\ runLog' = [runLog EXCEPT ![r] = FormatLog(TOOL_LOG)]
    /\ runPc' = [runPc EXCEPT ![r] = "done"]
    /\ UNCHANGED <<TOOL_LOG, toolVars, runCalls, runsStarted>>

\* agent.invoke raised: run_study_coach returns nothing and
\* study_coach_interface answers with the error text and an empty log
RunFail(r) ==
    /\ runPc[r] = "invoking"
    /\ runPc' = [runPc EXCEPT ![r] = "failed"]
    /\ UNCHANGED <<TOOL_LOG, toolVars, runCalls, runLog, runsStarted>>

InitCoach ==
    /\ TOOL_LOG = <<>>
    /\ req = NoRequest
    /\ pc = "idle"
    /\ topics = <<>>
    /\ weights = <<>>
    /\ hours_per_topic = <<>>
    /\ schedule = <<>>
    /\ day = 0
    /\ ti = 0
    /\ remaining = RZero
    /\ result = NoResult
    /\ CoachIdle

NextCoach ==
    \/ \E r \in Runs : RunStart(r)
    \/ \E r \in Runs, q \in CoachRequests : AgentToolCall(r, q)
    \/ \E r \in Runs : RunReturn(r)
    \/ \E r \in Runs : RunFail(r)

\* TOOL_LOG is module-global and run_study_coach takes no lock: calls made
\* from different threads of the UI server interleave at these steps
SpecCoach == InitCoach /\ [][NextCoach]_vars

\* ------------------------------------------------------------------------
\* Vocabulary of the properties
\* ------------------------------------------------------------------------
IsItem(l) == l[1] = "item"
IsTopicLine(l) == l[1] = "topic"

\* the (topic, hours) lines of a returned schedule, in printed order
ResultItems == SelectSeq(result.lines, IsItem)

ItemHours(items) == RSum([i \in 1..Len(items) |-> items[i][3]])

\* days_until_exam * hours_per_day of the request
Budget ==
    Rat(req.days_until_exam * req.hours_per_day[1], req.hours_per_day[2])

HalfDay == Rat(req.hours_per_day[1], 2 * req.hours_per_day[2])

NineTenthsDay == Rat(9 * req.hours_per_day[1], 10 * req.hours_per_day[2])

\* sum of the hours stored for one day
LoadOf(items) == RSum([i \in 1..Len(items) |-> items[i][2]])

InBuild == req.tool = "build_study_schedule" /\ topics # <<>>
BuildDone == InBuild /\ pc = "done"

\* SubSeq(raw, a, b) is one entry of the comma separated list raw with the
\* blanks around it removed
IsListEntry(raw, a, b) ==
    /\ a <= b
    /\ \A k \in a..b : raw[k] # ","
    /\ raw[a] # " " /\ raw[b] # " "
    /\ \E c \in 0..(a - 1) :
         /\ c = 0 \/ raw[c] = ","
         /\ \A k \in (c + 1)..(a - 1) : raw[k] = " "
    /\ \E c \in (b + 1)..(Len(raw) + 1) :
         /\ c = Len(raw) + 1 \/ raw[c] = ","
         /\ \A k \in (b + 1)..(c - 1) : raw[k] = " "

\* the entries of the comma separated list raw, in lower case
ListEntries(raw) ==
    { [k \in 1..(p[2] - p[1] + 1) |-> LowerChar(raw[p[1] + k - 1])] :
        p \in { q \in (1..Len(raw)) \X (1..Len(raw)) :
                  IsListEntry(raw, q[1], q[2]) } }

\* some entry of the list occurs in the topic name t, letter case ignored
MentionedIn(entries, t) ==
    \E e \in entries : \E i \in 1..Len(t) :
        /\ i + Len(e) - 1 <= Len(t)
        /\ \A k \in 1..Len(e) : LowerChar(t[i + k - 1]) = e[k]

\* name is the catalog key up to letter case
SameIgnoringCase(name, key) ==
    /\ Len(name) = Len(key)
    /\ \A k \in 1..Len(key) : LowerChar(name[k]) = LowerChar(key[k])

\* name is the catalog key up to letter case and surrounding blanks
SameIgnoringCaseAndBlanks(name, key) ==
    \E a \in 1..Len(name), b \in 1..Len(name) :
        /\ b - a + 1 = Len(key)
        /\ \A k \in 1..Len(key) : LowerChar(name[a + k - 1]) = LowerChar(key[k])
        /\ \A k \in 1..Len(name) : (k < a \/ k > b) => name[k] = " "

\* ------------------------------------------------------------------------
\* C1
\* ------------------------------------------------------------------------
\* C1 (as stated): the hours printed in a returned schedule, summed over all
\* entries as the one-decimal values stored, are at most
\* days_until_exam * hours_per_day.
C1_SumWithinBudget ==
    (BuildDone /\ result.kind = "Schedule")
        => RLe(ItemHours(ResultItems), Budget)

\* C1 (amended): the one-decimal hours of a returned schedule sum to at most
\* days_until_exam * hours_per_day plus 0.05 hours of rounding per entry.
C1_SumWithinBudgetUpToRounding ==
    (BuildDone /\ result.kind = "Schedule")
        => RLe(ItemHours(ResultItems),
               RAdd(Budget, Rat(Len(ResultItems), 20)))

\* a returned schedule whose rounded hours add up to more than the budget
C1_Witness ==
    /\ BuildDone /\ result.kind = "Schedule"
    /\ RLt(Budget, ItemHours(ResultItems))

\* ------------------------------------------------------------------------
\* C2
\* ------------------------------------------------------------------------
\* C2 (as stated): no entry stored in the schedule has more hours than
\* hours_per_day / 2.
C2_EntryAtMostHalfDay ==
    InBuild =>
        \A d \in DOMAIN schedule : \A i \in 1..Len(schedule[d]) :
            RLe(schedule[d][i][2], HalfDay)

\* C2 (amended): no entry stored in the schedule exceeds hours_per_day / 2 by
\* more than the 0.05 hours that rounding to one decimal can add.
C2_EntryAtMostHalfDayRounded ==
    InBuild =>
        \A d \in DOMAIN schedule : \A i \in 1..Len(schedule[d]) :
            RLe(schedule[d][i][2], RAdd(HalfDay, Rat(1, 20)))

\* a full half-day chunk was stored and its rounded value is above the half day
C2_Witness ==
    /\ InBuild
    /\ \E d \in DOMAIN schedule : \E i \in 1..Len(schedule[d]) :
           RLt(HalfDay, schedule[d][i][2])

\* ------------------------------------------------------------------------
\* C3
\* ------------------------------------------------------------------------
\* C3: a schedule built for a known module is non-empty and every topic of
\* the module appears in at least one of its entries.
C3_CoversSyllabus ==
    BuildDone =>
        /\ result.kind = "Schedule"
        /\ \A k \in 1..Len(SYLLABUS[M_generative_ai]) :
             \E i \in 1..Len(ResultItems) :
                 ResultItems[i][2] = SYLLABUS[M_generative_ai][k]

\* ------------------------------------------------------------------------
\* C4
\* ------------------------------------------------------------------------
\* C4: a topic's weight is 2 if an entry of the weak list occurs in its name
\* (letter case ignored) and 1 otherwise; its allocation is
\* weight / sum(weights) * days * hours_per_day; so a weak topic is allocated
\* exactly twice the hours of a non-weak one and topics of the same status
\* are allocated the same hours.
C4_WeakTopicsDoubleShare ==
    InBuild =>
      LET weak == ListEntries(Chars[req.list_arg])
      IN
        /\ Len(weights) = Len(topics) /\ Len(hours_per_topic) = Len(topics)
        /\ \A i \in 1..Len(topics) :
             /\ weights[i] = IF MentionedIn(weak, Chars[topics[i]]) THEN 2 ELSE 1
             /\ RMul(hours_per_topic[i], RInt(ISum(weights)))
                    = RMul(RInt(weights[i]), Budget)
        /\ (weak = {}) => \A i \in 1..Len(topics) : weights[i] = 1
        /\ \A i \in 1..Len(topics), j \in 1..Len(topics) :
             /\ (weights[i] = 2 /\ weights[j] = 1)
                    => hours_per_topic[i] = RMul(RInt(2), hours_per_topic[j])
             /\ (weights[i] = weights[j])
                    => hours_per_topic[i] = hours_per_topic[j]

\* a request whose weak list names RAG in lower case among other entries:
\* RAG is weighted 2, "LLM fundamentals" 1
C4_Witness ==
    /\ InBuild
    /\ req.list_arg = W_rag_agent
    /\ \E i \in 1..Len(topics), j \in 1..Len(topics) :
         /\ topics[i] = T_RAG /\ weights[i] = 2
         /\ topics[j] = T_LLM /\ weights[j] = 1

\* ------------------------------------------------------------------------
\* C5
\* ------------------------------------------------------------------------
Known(name) ==
    \E key \in DOMAIN SYLLABUS : SameIgnoringCase(Chars[name], Chars[key])

KnownTrimmed(name) ==
    \E key \in DOMAIN SYLLABUS : SameIgnoringCaseAndBlanks(Chars[name], Chars[key])

NothingComputed ==
    /\ topics = <<>> /\ weights = <<>> /\ hours_per_topic = <<>>
    /\ schedule = <<>>
    /\ DOMAIN result = {"kind", "module_name"}

OutlineInOrder ==
    (req.tool = "get_module_outline" /\ result.kind # "NotFound") =>
        /\ result.kind = "Outline"
        /\ LET ts == SelectSeq(result.lines, IsTopicLine)
           IN  [i \in 1..Len(ts) |-> ts[i][2]] = SYLLABUS[M_generative_ai]

\* C5 (as stated): each tool returns NotFound with the module name exactly
\* when the name, compared case-insensitively, is not in the catalog; then
\* nothing is computed; a known module's outline lists the catalog topics in
\* catalog order.
C5_NotFoundIffNotInCatalog ==
    pc = "done" =>
        /\ (result.kind = "NotFound") <=> ~Known(req.module_name)
        /\ (result.kind = "NotFound") =>
               (result.module_name = req.module_name /\ NothingComputed)
        /\ OutlineInOrder

\* C5 (amended): as stated, the name being compared case-insensitively after
\* its leading and trailing blanks are removed.
C5_NotFoundIffNotInCatalogTrimmed ==
    pc = "done" =>
        /\ (result.kind = "NotFound") <=> ~KnownTrimmed(req.module_name)
        /\ (result.kind = "NotFound") =>
               (result.module_name = req.module_name /\ NothingComputed)
        /\ OutlineInOrder

\* build_study_schedule returned NotFound for an unknown module
C5_Witness ==
    /\ pc = "done"
    /\ req.tool = "build_study_schedule"
    /\ req.module_name = M_nonexistent
    /\ result.kind = "NotFound"

\* ------------------------------------------------------------------------
\* C6
\* ------------------------------------------------------------------------
\* the topic is selected by the focus list and has a registered task
Selected(t) ==
    /\ \/ ListEntries(Chars[req.list_arg]) = {}
       \/ MentionedIn(ListEntries(Chars[req.list_arg]), Chars[t])
    /\ t \in DOMAIN PRACTICE_TASKS
    /\ PRACTICE_TASKS[t] # <<>>

\* the lines after position i up to the next empty line
RECURSIVE TasksAfter(_, _)
TasksAfter(lines, i) ==
    IF i > Len(lines) \/ lines[i][1] # "task" THEN <<>>
    ELSE <<lines[i][2]>> \o TasksAfter(lines, i + 1)

\* C6: for a known module suggest_practice_tasks returns, in catalog order,
\* exactly the topics that contain a focus entry (any topic when there is no
\* focus entry) and have a registered task, each followed by its full task
\* list; it returns NoMatches exactly when there is no such topic.
C6_TasksForFocusTopics ==
    (pc = "done" /\ req.tool = "suggest_practice_tasks"
        /\ result.kind # "NotFound") =>
        LET want == SelectSeq(SYLLABUS[M_generative_ai], Selected)
        IN  /\ (result.kind = "NoMatches") <=> (want = <<>>)
            /\ (result.kind # "NoMatches") =>
                 /\ result.kind = "Tasks"
                 /\ LET ls == result.lines
                        at == SelectSeq([i \in 1..Len(ls) |-> i],
                                        LAMBDA i : ls[i][1] = "topic")
                    IN  /\ [k \in 1..Len(at) |-> ls[at[k]][2]] = want
                        /\ \A k \in 1..Len(at) :
                             TasksAfter(ls, at[k] + 1)
                                 = PRACTICE_TASKS[ls[at[k]][2]]

\* the focus list "RAG" returned the RAG topic alone with its two tasks
C6_Witness ==
    /\ pc = "done" /\ req.tool = "suggest_practice_tasks"
    /\ req.list_arg = W_RAG
    /\ result.kind = "Tasks"
    /\ Len(SelectSeq(result.lines, IsTopicLine)) = 1
    /\ Len(result.lines) = 5

\* focus entries that match only a topic without tasks give NoMatches
C6_WitnessNoMatches ==
    /\ pc = "done" /\ req.tool = "suggest_practice_tasks"
    /\ req.list_arg = W_groq_xyz
    /\ result.kind = "NoMatches"

\* ------------------------------------------------------------------------
\* C7
\* ------------------------------------------------------------------------
C7_Step ==
    (InBuild /\ pc = "packing") =>
        /\ day' >= day
        /\ (day' # day) => (schedule' # schedule /\ day' = day + 1)
        /\ (schedule' # schedule) =>
             /\ RLt(LoadOf(schedule[day]), NineTenthsDay)
             /\ (day' = day + 1) <=> RLe(NineTenthsDay, LoadOf(schedule'[day]))

C7_State ==
    InBuild =>
        /\ day >= 1
        /\ (\A d \in DOMAIN schedule : schedule[d] = <<>>) => day = 1
        /\ \A d \in DOMAIN schedule :
             /\ (d < day) => RLe(NineTenthsDay, LoadOf(schedule[d]))
             /\ (schedule[d] # <<>>) => \A e \in 1..(d - 1) : schedule[e] # <<>>

\* C7: the day cursor starts at 1, never decreases, and moves only right
\* after an append, by one, exactly when the load stored for the current day
\* is >= 0.9 * hours_per_day; so an append always goes to a day whose load is
\* below 0.9 * hours_per_day, every day below the cursor has at least that
\* load, and the days that have entries are a prefix 1..k.
C7_CursorMovesExactlyWhenDayFull == [](C7_State) /\ [][C7_Step]_vars

\* ------------------------------------------------------------------------
\* C8
\* ------------------------------------------------------------------------
\* the (day, topic, hours) triples of the schedule, day by day
RECURSIVE ScheduleEntries(_)
ScheduleEntries(d) ==
    IF d > Len(schedule) THEN <<>>
    ELSE [i \in 1..Len(schedule[d]) |-> <<d, schedule[d][i][1], schedule[d][i][2]>>]
         \o ScheduleEntries(d + 1)

\* the (day, topic, hours) triples read off the returned lines
RECURSIVE PrintedEntries(_, _, _)
PrintedEntries(lines, i, cur) ==
    IF i > Len(lines) THEN <<>>
    ELSE IF lines[i][1] = "day" THEN PrintedEntries(lines, i + 1, lines[i][2])
    ELSE IF lines[i][1] = "item"
         THEN <<<<cur, lines[i][2], lines[i][3]>>>>
              \o PrintedEntries(lines, i + 1, cur)
    ELSE PrintedEntries(lines, i + 1, cur)

C8_Step ==
    (InBuild /\ pc = "packing" /\ day > req.days_until_exam) =>
        (schedule' = schedule /\ day' = day)

C8_State ==
    InBuild =>
        /\ DOMAIN schedule = 1..req.days_until_exam
        /\ (pc = "done") =>
             /\ result.kind = "Schedule"
             /\ PrintedEntries(result.lines, 1, 0) = ScheduleEntries(1)

C9_DayWithinHoursPerDay ==
    InBuild =>
        \A d \in DOMAIN schedule : RLe(LoadOf(schedule[d]), req.hours_per_day)

\* ------------------------------------------------------------------------
\* C10
\* ------------------------------------------------------------------------
\* C10: the log text a run returns lists exactly the tool calls of that run,
\* one numbered line per call in invocation order with tool name and
\* arguments, and is "No tools were called." exactly when it made none.
C10_LogListsOwnCalls ==
    \A r \in Runs :
        (runPc[r] = "done") =>
            IF runCalls[r] = <<>>
            THEN runLog[r].kind = "NoTools"
            ELSE /\ runLog[r].kind = "Sequence"
                 /\ Len(runLog[r].lines) = Len(runCalls[r])
                 /\ \A i \in 1..Len(runCalls[r]) :
                      /\ runLog[r].lines[i][1] = i
                      /\ runLog[r].lines[i][2] = runCalls[r][i].tool
                      /\ runLog[r].lines[i][3] = KwArgs(runCalls[r][i])

====
